---- MODULE Spec2Model ----
(***************************************************************************)
(* Model of ElectronicsMainBoard1V1 ("Milky Way Main Board v1.1"):         *)
(* the board facade over two PCA9685 driver chips, seven DC motors, one    *)
(* stepper, seven LEDs and the MCP3002 analog converter on the SPI bus.    *)
(*                                                                         *)
(* Python objects are records [kind, id, chip, chans]; two handles are the *)
(* same instance iff their ids are equal.  Every write to a driver-chip    *)
(* channel and every construction of a motor object over driver-chip       *)
(* channels is appended to i2c_log, every SPI exchange to spi_log.         *)
(***************************************************************************)
EXTENDS Integers, Sequences, FiniteSets, TLC

VARIABLES
  pc,                    \* "boot" before __init__ has run, "ready" after
  stepper_motor_enable,  \* cfg.get("stepper_motor_enable")
  chevron_motors_enable, \* cfg.get("chevron_motors_enable")
  board_cfg,             \* the board-specific remap file: key -> value
  i2c_log,               \* channel writes and motor constructions, in order
  next_id,               \* identity of the next object to be created
  motor_attr,            \* the attributes _motor<name> set by _motor
  motor_channels,        \* self.motor_channels
  led_channels,          \* self.led_channels
  stepper1,              \* self.stepper1
  spi_reply,             \* the bytes the SPI bus answers the next exchange with
  spi_log,               \* the frames sent in the SPI exchanges made so far
  spi_rx,                \* the reply read in the last SPI exchange
  direct_calls,          \* number of motorN property reads made by callers
  ret                    \* outcome of the last operation

vars == <<pc, stepper_motor_enable, chevron_motors_enable, board_cfg, i2c_log,
          next_id, motor_attr, motor_channels, led_channels, stepper1,
          spi_reply, spi_log, spi_rx, direct_calls, ret>>

----------------------------------------------------------------------------
(* Bounds of the model *)

\* motorN property reads made by callers after construction
MaxDirect == 2
\* SPI exchanges in one run
MaxXfer == 2

----------------------------------------------------------------------------
(* Board constants *)

\* self._pca_1 and self._pca_2, named by the digit in the attribute name
PCA_1 == 1
PCA_2 == 2
\* 0xFFFF, the full duty cycle written to an enable channel
FULL_DUTY == 65535
\* self.adc_resolution
adc_resolution == 10
\* self.adc_vref = 3.3, in tenths of a volt
adc_vref_tenths == 33

\* adafruit_motor.stepper's drive-style and direction constants
stp == [FORWARD |-> 1, BACKWARD |-> 2,
        SINGLE |-> 1, DOUBLE |-> 2, INTERLEAVE |-> 3, MICROSTEP |-> 4]

\* self.drive_modes
drive_modes == [double |-> stp.DOUBLE, single |-> stp.SINGLE,
                interleave |-> stp.INTERLEAVE, microstep |-> stp.MICROSTEP]

\* the wiring with motor6 enabled through channel 6 of _pca_1, the stepper's PWMA
MotorWiring_shared ==
  << [controller |-> PCA_2, name |-> 1, channels |-> <<9, 11, 10>>],
     [controller |-> PCA_2, name |-> 2, channels |-> <<6, 8, 7>>],
     [controller |-> PCA_2, name |-> 3, channels |-> <<3, 5, 4>>],
     [controller |-> PCA_2, name |-> 4, channels |-> <<0, 2, 1>>],
     [controller |-> PCA_1, name |-> 4, channels |-> <<12, 14, 13>>],
     [controller |-> PCA_1, name |-> 4, channels |-> <<6, 3, 4>>],
     [controller |-> PCA_1, name |-> 4, channels |-> <<0, 2, 1>>] >>

\* the properties motor1 .. motor7: controller, cache name and
\* channel triplet <<PWM, IN_POS, IN_NEG>> each passes to _motor
MotorWiring ==
  << [controller |-> PCA_2, name |-> 1, channels |-> <<9, 11, 10>>],
     [controller |-> PCA_2, name |-> 2, channels |-> <<6, 8, 7>>],
     [controller |-> PCA_2, name |-> 3, channels |-> <<3, 5, 4>>],
     [controller |-> PCA_2, name |-> 4, channels |-> <<0, 2, 1>>],
     [controller |-> PCA_1, name |-> 4, channels |-> <<12, 14, 13>>],
     [controller |-> PCA_1, name |-> 4, channels |-> <<5, 3, 4>>],
     [controller |-> PCA_1, name |-> 4, channels |-> <<0, 2, 1>>] >>

\* the stepper property's channels on _pca_1: PWMA, PWMB and AIN1, AIN2, BIN1, BIN2
StepperWiring == [controller |-> PCA_1, enable |-> <<6, 11>>, coils |-> <<8, 7, 9, 10>>]

\* the GPIO pins of init_led_gpio, by LED channel
LedPins == <<22, 25, 5, 19, 26, 21, 20>>

\* the channel indices of one PCA9685
ChannelRange == 0..15

----------------------------------------------------------------------------
(* Objects *)

\* Python's None
NoneObj == [kind |-> "None", id |-> 0, chip |-> 0, chans |-> <<>>]

NewObj(kind, id, chip, chans) == [kind |-> kind, id |-> id, chip |-> chip, chans |-> chans]

\* bool(obj): None is false, an object of a class without __bool__/__len__ is true
Truthy(obj) == obj.kind # "None"

\* hardware_simulation.DCMotorSim(): a stand-in bound to no channel
DCMotorSim(id) == NewObj("DCMotorSim", id, 0, <<>>)

\* hardware_simulation.StepperSim(): a stand-in bound to no channel
StepperSim(id) == NewObj("StepperSim", id, 0, <<>>)

\* controller.channels[ch].duty_cycle = val, as a log entry
DutyWrite(chip, ch, val) ==
  [op |-> "duty_cycle", chip |-> chip, chans |-> <<ch>>, val |-> val, id |-> 0]

\* the construction of a motor object over channels of a chip, as a log entry
Built(obj) ==
  [op |-> obj.kind, chip |-> obj.chip, chans |-> obj.chans, val |-> 0, id |-> obj.id]

----------------------------------------------------------------------------
(* Outcomes of operations *)

Returned(op, n, name, obj, val) ==
  [op |-> op, n |-> n, name |-> name, tag |-> "return", obj |-> obj, val |-> val]

Raised(op, n, name, exc) ==
  [op |-> op, n |-> n, name |-> name, tag |-> exc, obj |-> NoneObj, val |-> 0]

----------------------------------------------------------------------------
(* The remap file *)

Roles == {"led", "motor"}

\* f"chevron_{chevron_number}_{role}_channel"
Key(chevron_number, role) == <<chevron_number, role>>

\* "a config file which maps chevron N -> channel N" for the seven wired chevrons
DefaultRemap == [k \in {Key(n, r) : n \in 1..7, r \in Roles} |-> k[1]]

\* the chevrons table: chevron -> (gpio led number, motor number)
chevrons ==
  << <<21, 3>>, <<16, 4>>, <<20, 5>>, <<26, 6>>, <<6, 7>>, <<13, 8>>, <<19, 9>>,
     <<0, 10>>, <<0, 11>> >>

\* a remap file written from the chevrons table (chevrons 8 and 9 have no led)
ChevronsRemap ==
  [k \in {Key(n, "motor") : n \in 1..9} \cup {Key(n, "led") : n \in 1..7} |->
     IF k[2] = "led" THEN chevrons[k[1]][1] ELSE chevrons[k[1]][2]]

\* a harness wired in the opposite order
ReversedRemap == [k \in {Key(n, r) : n \in 1..7, r \in Roles} |-> 8 - k[1]]

RemapFiles == {DefaultRemap, ChevronsRemap, ReversedRemap}

\* board_cfg.get(key): the value of the key, <<v>>, or <<>> (None) for a missing key
board_cfg_get(key) ==
  IF key \in DOMAIN board_cfg THEN <<board_cfg[key]>> ELSE <<>>

----------------------------------------------------------------------------
(* The heap the factories work on: the part of self they read and write *)

Heap == [log |-> i2c_log, next_id |-> next_id, attr |-> motor_attr, stepper1 |-> stepper1]

EmptyHeap == [log |-> <<>>, next_id |-> 1, attr |-> <<>>, stepper1 |-> NoneObj]

\* _motor building the DCMotor before it forces the enable channel
_motor_build_first(h, controller, motor_name, channels) ==
  LET m     == NewObj("DCMotor", h.next_id, controller, <<channels[2], channels[3]>>)
      log2  == Append(Append(h.log, Built(m)),
                      DutyWrite(controller, channels[1], FULL_DUTY))
      attr2 == (motor_name :> m) @@ h.attr
  IN  [h   |-> [h EXCEPT !.log = log2, !.next_id = h.next_id + 1, !.attr = attr2],
       ret |-> attr2[motor_name], exc |-> ""]

\* _motor(controller, motor_name, channels): force the enable channel to full
\* duty, build a DCMotor over the polarity channels, store it as
\* _motor<motor_name> and return that attribute.  controller.channels[i]
\* raises IndexError for an index past the chip's last channel; the three
\* subscripts are evaluated in the order enable, positive, negative.
_motor(h, controller, motor_name, channels) ==
  IF channels[1] \notin ChannelRange
  THEN [h |-> h, ret |-> NoneObj, exc |-> "IndexError"]
  ELSE LET log1 == Append(h.log, DutyWrite(controller, channels[1], FULL_DUTY)) IN
       IF channels[2] \notin ChannelRange \/ channels[3] \notin ChannelRange
       THEN [h |-> [h EXCEPT !.log = log1], ret |-> NoneObj, exc |-> "IndexError"]
       ELSE LET m     == NewObj("DCMotor", h.next_id, controller,
                                <<channels[2], channels[3]>>)
                attr2 == (motor_name :> m) @@ h.attr
            IN  [h   |-> [h EXCEPT !.log = Append(log1, Built(m)),
                                   !.next_id = h.next_id + 1, !.attr = attr2],
                 ret |-> attr2[motor_name], exc |-> ""]

\* the property motor<n>
motorN(h, n) ==
  _motor(h, MotorWiring[n].controller, MotorWiring[n].name, MotorWiring[n].channels)

\* the property stepper without its "if not self.stepper1" guard
stepper_unguarded(h) ==
  LET w   == StepperWiring
      s   == NewObj("StepperMotor", h.next_id, w.controller, w.coils)
      log2 == h.log \o << DutyWrite(w.controller, w.enable[1], FULL_DUTY),
                          DutyWrite(w.controller, w.enable[2], FULL_DUTY),
                          Built(s) >>
  IN  [h   |-> [h EXCEPT !.log = log2, !.next_id = h.next_id + 1, !.stepper1 = s],
       ret |-> s]

\* the property stepper building the StepperMotor before it forces the two
\* enable channels
stepper_build_first(h) ==
  IF ~Truthy(h.stepper1)
  THEN LET w   == StepperWiring
           s   == NewObj("StepperMotor", h.next_id, w.controller, w.coils)
           log2 == h.log \o << Built(s),
                               DutyWrite(w.controller, w.enable[1], FULL_DUTY),
                               DutyWrite(w.controller, w.enable[2], FULL_DUTY) >>
       IN  [h   |-> [h EXCEPT !.log = log2, !.next_id = h.next_id + 1, !.stepper1 = s],
            ret |-> s]
  ELSE [h |-> h, ret |-> h.stepper1]

\* the property stepper
stepper(h) ==
  IF ~Truthy(h.stepper1)
  THEN LET w   == StepperWiring
           s   == NewObj("StepperMotor", h.next_id, w.controller, w.coils)
           log2 == h.log \o << DutyWrite(w.controller, w.enable[1], FULL_DUTY),
                               DutyWrite(w.controller, w.enable[2], FULL_DUTY),
                               Built(s) >>
       IN  [h   |-> [h EXCEPT !.log = log2, !.next_id = h.next_id + 1, !.stepper1 = s],
            ret |-> s]
  ELSE [h |-> h, ret |-> h.stepper1]

\* the dict display {1: self.motor1, ..., 7: self.motor7}: each property is
\* read once, in order, and its value stored
RECURSIVE RealMotors(_, _, _)
RealMotors(h, n, tbl) ==
  IF n > Len(MotorWiring) THEN [h |-> h, tbl |-> tbl]
  ELSE LET r == motorN(h, n) IN RealMotors(r.h, n + 1, Append(tbl, r.ret))

\* a motor table holding one DCMotorSim under all seven channels
SimMotors_shared(h, n, tbl) ==
  [h   |-> [h EXCEPT !.next_id = h.next_id + 1],
   tbl |-> [c \in 1..Len(MotorWiring) |-> DCMotorSim(h.next_id)]]

\* the dict display {1: DCMotorSim(), ..., 7: DCMotorSim()}
RECURSIVE SimMotors(_, _, _)
SimMotors(h, n, tbl) ==
  IF n > Len(MotorWiring) THEN [h |-> h, tbl |-> tbl]
  ELSE SimMotors([h EXCEPT !.next_id = h.next_id + 1], n + 1,
                 Append(tbl, DCMotorSim(h.next_id)))

\* init_motor_hardware reading the stepper property whatever the flag says
init_motor_hardware_real_stepper(h, cme, sme) ==
  LET m == IF cme THEN RealMotors(h, 1, <<>>) ELSE SimMotors(h, 1, <<>>)
      r == stepper(m.h)
  IN  [h |-> [r.h EXCEPT !.stepper1 = r.ret], motor_channels |-> m.tbl]

\* init_motor_hardware with the test of chevron_motors_enable inverted
init_motor_hardware_flag_inverted(h, cme, sme) ==
  LET m  == IF ~cme THEN RealMotors(h, 1, <<>>) ELSE SimMotors(h, 1, <<>>)
      h2 == IF sme
            THEN LET r == stepper(m.h) IN [r.h EXCEPT !.stepper1 = r.ret]
            ELSE [m.h EXCEPT !.stepper1 = StepperSim(m.h.next_id),
                             !.next_id = m.h.next_id + 1]
  IN  [h |-> h2, motor_channels |-> m.tbl]

\* init_motor_hardware
init_motor_hardware(h, cme, sme) ==
  LET m  == IF cme THEN RealMotors(h, 1, <<>>) ELSE SimMotors(h, 1, <<>>)
      h2 == IF sme
            THEN LET r == stepper(m.h) IN [r.h EXCEPT !.stepper1 = r.ret]
            ELSE [m.h EXCEPT !.stepper1 = StepperSim(m.h.next_id),
                             !.next_id = m.h.next_id + 1]
  IN  [h |-> h2, motor_channels |-> m.tbl]

\* init_led_gpio
init_led_gpio(h) ==
  [h |-> [h EXCEPT !.next_id = h.next_id + Len(LedPins)],
   led_channels |-> [c \in 1..Len(LedPins) |->
                       NewObj("LED", h.next_id + c - 1, 0, <<LedPins[c]>>)]]

----------------------------------------------------------------------------
(* Operations *)

\* ElectronicsMainBoard1V1.__init__
Construct ==
  /\ pc = "boot"
  /\ LET m == init_motor_hardware(EmptyHeap, chevron_motors_enable, stepper_motor_enable)
         l == init_led_gpio(m.h)
     IN  /\ i2c_log' = l.h.log
         /\ next_id' = l.h.next_id
         /\ motor_attr' = l.h.attr
         /\ stepper1' = l.h.stepper1
         /\ motor_channels' = m.motor_channels
         /\ led_channels' = l.led_channels
  /\ pc' = "ready"
  /\ ret' = Returned("__init__", 0, "", NoneObj, 0)
  /\ UNCHANGED <<stepper_motor_enable, chevron_motors_enable, board_cfg,
                 spi_reply, spi_log, spi_rx, direct_calls>>

Init ==
  /\ pc = "boot"
  /\ stepper_motor_enable \in BOOLEAN
  /\ chevron_motors_enable \in BOOLEAN
  /\ board_cfg \in RemapFiles
  /\ i2c_log = <<>>
  /\ next_id = 1
  /\ motor_attr = <<>>
  /\ motor_channels = <<>>
  /\ led_channels = <<>>
  /\ stepper1 = NoneObj
  /\ spi_reply = <<0, 0>>
  /\ spi_log = <<>>
  /\ spi_rx = <<>>
  /\ direct_calls = 0
  /\ ret = Returned("", 0, "", NoneObj, 0)

cfgVars == <<stepper_motor_enable, chevron_motors_enable, board_cfg>>
hwVars  == <<i2c_log, next_id, motor_attr, motor_channels, led_channels, stepper1>>
spiVars == <<spi_reply, spi_log, spi_rx>>

\* the chevron numbers callers ask for: the nine chevrons and two that do not exist
ChevronArgs == 0..10

\* get_chevron_led: a missing key gives None, and None or an unregistered
\* channel is no key of led_channels
get_chevron_led(chevron_number) ==
  /\ pc = "ready"
  /\ LET channel == board_cfg_get(Key(chevron_number, "led"))
     IN  ret' = IF channel # <<>> /\ channel[1] \in DOMAIN led_channels
                THEN Returned("get_chevron_led", chevron_number, "",
                              led_channels[channel[1]], 0)
                ELSE Raised("get_chevron_led", chevron_number, "", "KeyError")
  /\ UNCHANGED <<pc, cfgVars, hwVars, spiVars, direct_calls>>

\* get_chevron_motor over a table that holds the motor properties themselves,
\* so that every lookup reads the property again
get_chevron_motor_reads_property(chevron_number) ==
  /\ pc = "ready"
  /\ LET channel == board_cfg_get(Key(chevron_number, "motor"))
     IN  IF channel # <<>> /\ channel[1] \in DOMAIN motor_channels
         THEN LET r == IF chevron_motors_enable
                       THEN motorN(Heap, channel[1])
                       ELSE [h |-> Heap, ret |-> motor_channels[channel[1]]]
              IN  /\ i2c_log' = r.h.log
                  /\ next_id' = r.h.next_id
                  /\ motor_attr' = r.h.attr
                  /\ ret' = Returned("get_chevron_motor", chevron_number, "", r.ret, 0)
         ELSE /\ ret' = Raised("get_chevron_motor", chevron_number, "", "KeyError")
              /\ UNCHANGED <<i2c_log, next_id, motor_attr>>
  /\ UNCHANGED <<pc, cfgVars, motor_channels, led_channels, stepper1, spiVars,
                 direct_calls>>

\* get_chevron_motor looking the channel up with dict.get, which answers None
\* for a key the table does not hold
get_chevron_motor_dict_get(chevron_number) ==
  /\ pc = "ready"
  /\ LET channel == board_cfg_get(Key(chevron_number, "motor"))
     IN  ret' = Returned("get_chevron_motor", chevron_number, "",
                         IF channel # <<>> /\ channel[1] \in DOMAIN motor_channels
                         THEN motor_channels[channel[1]] ELSE NoneObj, 0)
  /\ UNCHANGED <<pc, cfgVars, hwVars, spiVars, direct_calls>>

\* get_chevron_motor looking the channel up with dict.setdefault, which
\* registers a stand-in under a channel the table does not hold
get_chevron_motor_setdefault(chevron_number) ==
  /\ pc = "ready"
  /\ LET channel == board_cfg_get(Key(chevron_number, "motor"))
     IN  IF channel = <<>>
         THEN /\ ret' = Raised("get_chevron_motor", chevron_number, "", "KeyError")
              /\ UNCHANGED <<motor_channels, next_id>>
         ELSE IF channel[1] \in DOMAIN motor_channels
         THEN /\ ret' = Returned("get_chevron_motor", chevron_number, "",
                                 motor_channels[channel[1]], 0)
              /\ UNCHANGED <<motor_channels, next_id>>
         ELSE /\ motor_channels' = (channel[1] :> DCMotorSim(next_id)) @@ motor_channels
              /\ next_id' = next_id + 1
              /\ ret' = Returned("get_chevron_motor", chevron_number, "",
                                 DCMotorSim(next_id), 0)
  /\ UNCHANGED <<pc, cfgVars, i2c_log, motor_attr, led_channels, stepper1, spiVars,
                 direct_calls>>

\* get_chevron_motor
get_chevron_motor(chevron_number) ==
  /\ pc = "ready"
  /\ LET channel == board_cfg_get(Key(chevron_number, "motor"))
     IN  ret' = IF channel # <<>> /\ channel[1] \in DOMAIN motor_channels
                THEN Returned("get_chevron_motor", chevron_number, "",
                              motor_channels[channel[1]], 0)
                ELSE Raised("get_chevron_motor", chevron_number, "", "KeyError")
  /\ UNCHANGED <<pc, cfgVars, hwVars, spiVars, direct_calls>>

\* get_stepper: reads the property stepper
get_stepper ==
  /\ pc = "ready"
  /\ LET r == stepper(Heap)
     IN  /\ i2c_log' = r.h.log
         /\ next_id' = r.h.next_id
         /\ motor_attr' = r.h.attr
         /\ stepper1' = r.h.stepper1
         /\ ret' = Returned("get_stepper", 0, "", r.ret, 0)
  /\ UNCHANGED <<pc, cfgVars, motor_channels, led_channels, spiVars, direct_calls>>

\* the names callers pass to get_stepper_drive_mode
ModeNames == {"double", "single", "interleave", "microstep", "bogus", "DOUBLE", ""}

\* get_stepper_drive_mode without its except clause
get_stepper_drive_mode_raises(drive_mode) ==
  /\ pc = "ready"
  /\ ret' = IF drive_mode \in DOMAIN drive_modes
            THEN Returned("get_stepper_drive_mode", 0, drive_mode, NoneObj,
                          drive_modes[drive_mode])
            ELSE Raised("get_stepper_drive_mode", 0, drive_mode, "KeyError")
  /\ UNCHANGED <<pc, cfgVars, hwVars, spiVars, direct_calls>>

\* get_stepper_drive_mode: the table's entry, or on KeyError the entry of 'double'
get_stepper_drive_mode(drive_mode) ==
  /\ pc = "ready"
  /\ ret' = Returned("get_stepper_drive_mode", 0, drive_mode, NoneObj,
                     IF drive_mode \in DOMAIN drive_modes
                     THEN drive_modes[drive_mode]
                     ELSE drive_modes["double"])
  /\ UNCHANGED <<pc, cfgVars, hwVars, spiVars, direct_calls>>

\* a caller reading the property motor<n> of the board
motor_property(n) ==
  /\ pc = "ready"
  /\ direct_calls < MaxDirect
  /\ LET r == motorN(Heap, n)
     IN  /\ i2c_log' = r.h.log
         /\ next_id' = r.h.next_id
         /\ motor_attr' = r.h.attr
         /\ stepper1' = r.h.stepper1
         /\ ret' = Returned("motor_property", n, "", r.ret, 0)
  /\ direct_calls' = direct_calls + 1
  /\ UNCHANGED <<pc, cfgVars, motor_channels, led_channels, spiVars>>

----------------------------------------------------------------------------
(* The analog sampler *)

\* the channel arguments callers pass to get_adc_by_channel
AdcArgs == -1..2

Byte == 0..255

\* what the bus can answer: two bytes, or a short reply of one or no byte
Replies == (Byte \X Byte) \cup {<<b>> : b \in Byte} \cup {<<>>}

\* the answers of the exchanges after the first
LaterReplies == {<<96, 0>>, <<255>>}

\* the frame with the start pattern and channel shifted by four bits only
adc_msg_shift4(adc_ch) == << ((3 * 2) + adc_ch) * 16, 0 >>

\* msg = 0b11; msg = ((msg << 1) + adc_ch) << 5; msg = [msg, 0b00000000]
adc_msg(adc_ch) == << ((3 * 2) + adc_ch) * 32, 0 >>

\* for byte in reply: adc_value = (adc_value << 8) + byte
RECURSIVE adc_assemble(_, _)
adc_assemble(adc_value, reply) ==
  IF reply = <<>> THEN adc_value
  ELSE adc_assemble(adc_value * 256 + Head(reply), Tail(reply))

\* the integer built from the reply, the shift forgotten
adc_value_unshifted(reply) == adc_assemble(0, reply)

\* the integer built from the reply, shifted right by one
adc_value_of(reply) == adc_assemble(0, reply) \div 2

\* get_adc_by_channel checking only the upper end of the channel range
get_adc_by_channel_upper_check(adc_ch) ==
  /\ pc = "ready"
  /\ IF adc_ch > 1
     THEN /\ ret' = Raised("get_adc_by_channel", adc_ch, "", "ValueError")
          /\ UNCHANGED spiVars
     ELSE /\ Len(spi_log) < MaxXfer
          /\ spi_log' = Append(spi_log, adc_msg(adc_ch))
          /\ spi_rx' = spi_reply
          /\ spi_reply' \in LaterReplies
          /\ ret' = Returned("get_adc_by_channel", adc_ch, "", NoneObj,
                             adc_value_of(spi_reply))
  /\ UNCHANGED <<pc, cfgVars, hwVars, direct_calls>>

\* get_adc_by_channel
get_adc_by_channel(adc_ch) ==
  /\ pc = "ready"
  /\ IF adc_ch \notin {0, 1}
     THEN /\ ret' = Raised("get_adc_by_channel", adc_ch, "", "ValueError")
          /\ UNCHANGED spiVars
     ELSE /\ Len(spi_log) < MaxXfer
          /\ spi_log' = Append(spi_log, adc_msg(adc_ch))
          /\ spi_rx' = spi_reply
          /\ spi_reply' \in LaterReplies
          /\ ret' = Returned("get_adc_by_channel", adc_ch, "", NoneObj,
                             adc_value_of(spi_reply))
  /\ UNCHANGED <<pc, cfgVars, hwVars, direct_calls>>

\* Python's a ^ b on non-negative integers: bitwise exclusive or
RECURSIVE BitXor(_, _)
BitXor(a, b) ==
  IF a = 0 /\ b = 0 THEN 0
  ELSE (((a % 2) + (b % 2)) % 2) + (2 * BitXor(a \div 2, b \div 2))

\* voltages are carried as integers: volts times 10 * 2^adc_resolution
VoltScale == 10 * 2^adc_resolution

\* adc_to_voltage: (self.adc_vref * adc_value) / (2^self.adc_resolution)-1,
\* where ^ is exclusive or and the 1 is subtracted from the quotient
adc_to_voltage(adc_value) ==
  ((adc_vref_tenths * adc_value * 2^adc_resolution) \div BitXor(2, adc_resolution))
    - VoltScale

\* get_homing_sensor_voltage: adc_to_voltage(get_adc_by_channel(0))
get_homing_sensor_voltage ==
  /\ pc = "ready"
  /\ Len(spi_log) < MaxXfer
  /\ spi_log' = Append(spi_log, adc_msg(0))
  /\ spi_rx' = spi_reply
  /\ spi_reply' \in LaterReplies
  /\ ret' = Returned("get_homing_sensor_voltage", 0, "", NoneObj,
                     adc_to_voltage(adc_value_of(spi_reply)))
  /\ UNCHANGED <<pc, cfgVars, hwVars, direct_calls>>

\* the channel triplets handed to the factory by a direct caller
FactoryTriplets == {<<3, 5, 4>>, <<3, 16, 4>>, <<16, 5, 4>>, <<3, 5, 16>>}

\* a caller invoking _motor(controller, motor_name, channels) itself
motor_factory(controller, motor_name, channels) ==
  /\ pc = "ready"
  /\ direct_calls < MaxDirect
  /\ LET r == _motor(Heap, controller, motor_name, channels)
     IN  /\ i2c_log' = r.h.log
         /\ next_id' = r.h.next_id
         /\ motor_attr' = r.h.attr
         /\ stepper1' = r.h.stepper1
         /\ ret' = IF r.exc = ""
                   THEN Returned("_motor", motor_name, "", r.ret, 0)
                   ELSE Raised("_motor", motor_name, "", r.exc)
  /\ direct_calls' = direct_calls + 1
  /\ UNCHANGED <<pc, cfgVars, motor_channels, led_channels, spiVars>>

----------------------------------------------------------------------------
(* Specifications *)

\* the facade: construction, then lookups in any order
Next ==
  \/ Construct
  \/ \E n \in ChevronArgs : get_chevron_led(n)
  \/ \E n \in ChevronArgs : get_chevron_motor(n)
  \/ get_stepper
  \/ \E m \in ModeNames : get_stepper_drive_mode(m)

Spec == Init /\ [][Next]_vars

\* the facade and, beside it, callers that read the motor properties themselves
NextFactory ==
  \/ Next
  \/ \E n \in 1..Len(MotorWiring) : motor_property(n)

SpecFactory == Init /\ [][NextFactory]_vars

\* the facade and, beside it, callers that invoke the motor factory themselves
NextAddressing ==
  \/ Next
  \/ \E t \in FactoryTriplets : motor_factory(PCA_2, 3, t)

SpecAddressing == Init /\ [][NextAddressing]_vars

\* the analog sampler on a board with simulated motors, against a bus whose
\* first answer is any reply
InitADC ==
  /\ pc = "boot"
  /\ stepper_motor_enable = FALSE
  /\ chevron_motors_enable = FALSE
  /\ board_cfg = DefaultRemap
  /\ i2c_log = <<>>
  /\ next_id = 1
  /\ motor_attr = <<>>
  /\ motor_channels = <<>>
  /\ led_channels = <<>>
  /\ stepper1 = NoneObj
  /\ spi_reply \in Replies
  /\ spi_log = <<>>
  /\ spi_rx = <<>>
  /\ direct_calls = 0
  /\ ret = Returned("", 0, "", NoneObj, 0)

NextADC ==
  \/ Construct
  \/ \E c \in AdcArgs : get_adc_by_channel(c)

SpecADC == InitADC /\ [][NextADC]_vars

\* the homing sensor read as a voltage, against the same bus
NextVoltage ==
  \/ Construct
  \/ get_homing_sensor_voltage

SpecVoltage == InitADC /\ [][NextVoltage]_vars

----------------------------------------------------------------------------
(* Reading the logs *)

\* positions of the duty-cycle writes to channel ch of a chip
WritesTo(chip, ch) ==
  {i \in DOMAIN i2c_log : /\ i2c_log[i].op = "duty_cycle"
                          /\ i2c_log[i].chip = chip
                          /\ i2c_log[i].chans = <<ch>>}

\* positions of the constructions of a kind of motor object over these channels
BuiltOver(kind, chip, chans) ==
  {i \in DOMAIN i2c_log : /\ i2c_log[i].op = kind
                          /\ i2c_log[i].chip = chip
                          /\ i2c_log[i].chans = chans}

\* positions of the log entries that touch channel ch of a chip
Touches(chip, ch) ==
  {i \in DOMAIN i2c_log : /\ i2c_log[i].chip = chip
                          /\ \E k \in DOMAIN i2c_log[i].chans : i2c_log[i].chans[k] = ch}

\* the object a construction entry created
ObjOf(e) == NewObj(e.op, e.id, e.chip, e.chans)

EnableOf(c)   == MotorWiring[c].channels[1]
PolarityOf(c) == <<MotorWiring[c].channels[2], MotorWiring[c].channels[3]>>

\* the motor channel a chevron's remap entry resolves to, when it is registered
ResolvesTo(n, c) ==
  /\ Key(n, "motor") \in DOMAIN board_cfg
  /\ board_cfg[Key(n, "motor")] = c
  /\ c \in 1..Len(MotorWiring)

RoleOf(op) == IF op = "get_chevron_led" THEN "led" ELSE "motor"

----------------------------------------------------------------------------
(* Claims *)

\* C1: with chevron motors enabled, for every chevron n whose remap entry
\* resolves to a registered motor channel c, the enable channel of motor c has
\* been written exactly once (with full duty) over construction and all the
\* get_chevron_motor calls made so far, exactly one DCMotor has ever been built
\* for c, and every get_chevron_motor(n) returns that one instance.
C1_SameHandleOneEnableWrite ==
  (pc = "ready" /\ chevron_motors_enable) =>
    \A n \in ChevronArgs : \A c \in 1..Len(MotorWiring) :
      ResolvesTo(n, c) =>
        LET chip == MotorWiring[c].controller IN
        /\ Cardinality(WritesTo(chip, EnableOf(c))) = 1
        /\ \A i \in WritesTo(chip, EnableOf(c)) : i2c_log[i].val = FULL_DUTY
        /\ Cardinality(BuiltOver("DCMotor", chip, PolarityOf(c))) = 1
        /\ (ret.op = "get_chevron_motor" /\ ret.n = n) =>
             /\ ret.tag = "return"
             /\ \A i \in BuiltOver("DCMotor", chip, PolarityOf(c)) :
                  ret.obj = ObjOf(i2c_log[i])

\* C1 witness: get_chevron_motor(3) has returned a real handle through a remap
\* that is not the identity.
C1_Witness ==
  /\ pc = "ready" /\ chevron_motors_enable /\ board_cfg = ReversedRemap
  /\ ret.op = "get_chevron_motor" /\ ret.n = 3 /\ ret.tag = "return"
  /\ ret.obj.kind = "DCMotor"

C2_Scenario ==
  /\ pc = "ready" /\ chevron_motors_enable
  /\ Key(3, "motor") \in DOMAIN board_cfg /\ board_cfg[Key(3, "motor")] = 5

\* C2 (as amended): when the remap maps chevron 3 to motor channel 5, motor
\* channel 5 is bound to chip 1 with the triplet (enable 12, positive 14,
\* negative 13); over construction and any get_chevron_motor(3) requests there
\* is exactly one enable write for it, to chip 1 channel 12, it comes before
\* anything touches the polarity channels 14 and 13 of chip 1, and
\* get_chevron_motor(3) returns the handle over those two channels.
C2_Chevron3OnChip1 ==
  C2_Scenario =>
    /\ Cardinality(WritesTo(PCA_1, 12)) = 1
    /\ Touches(PCA_1, 14) # {} /\ Touches(PCA_1, 13) # {}
    /\ \A i \in WritesTo(PCA_1, 12) : \A j \in Touches(PCA_1, 14) \cup Touches(PCA_1, 13) :
         i < j
    /\ (ret.op = "get_chevron_motor" /\ ret.n = 3) =>
         /\ ret.tag = "return"
         /\ ret.obj.kind = "DCMotor" /\ ret.obj.chip = PCA_1 /\ ret.obj.chans = <<14, 13>>

\* C2 witness: get_chevron_motor(3) has been answered in the scenario.
C2_Witness ==
  C2_Scenario /\ ret.op = "get_chevron_motor" /\ ret.n = 3 /\ ret.tag = "return"

\* C2 as stated: in the scenario the handle get_chevron_motor(3) returns is
\* bound to chip 2 with polarity channels 5 and 4, after exactly one enable
\* write to chip 2 channel 3 that precedes anything on those polarity channels.
C2_Original ==
  (C2_Scenario /\ ret.op = "get_chevron_motor" /\ ret.n = 3) =>
    /\ ret.tag = "return"
    /\ ret.obj.chip = PCA_2 /\ ret.obj.chans = <<5, 4>>
    /\ Cardinality(WritesTo(PCA_2, 3)) = 1
    /\ \A i \in WritesTo(PCA_2, 3) : \A j \in Touches(PCA_2, 5) \cup Touches(PCA_2, 4) :
         i < j

\* C3: a get_chevron_led or get_chevron_motor call for a chevron that has no
\* remap entry for the role ends in a raised KeyError, never a returned
\* handle, and the step writes nothing to the driver chips and leaves the LED
\* table, the motor table, the cached motor attributes and the stepper cache
\* as they were.
C3_MissingEntryFailsClean ==
  [][ ( /\ ret'.op \in {"get_chevron_led", "get_chevron_motor"}
        /\ Key(ret'.n, RoleOf(ret'.op)) \notin DOMAIN board_cfg )
      => ( /\ ret'.tag = "KeyError"
           /\ ret'.obj = NoneObj
           /\ UNCHANGED <<i2c_log, led_channels, motor_channels, motor_attr,
                          stepper1, next_id>> ) ]_vars

\* C3 witness: get_chevron_motor has failed for a chevron without a remap entry.
C3_Witness ==
  /\ pc = "ready" /\ chevron_motors_enable
  /\ ret.op = "get_chevron_motor" /\ ret.tag = "KeyError"
  /\ Key(ret.n, "motor") \notin DOMAIN board_cfg

\* C4: a get_adc_by_channel call with a channel outside {0, 1} raises
\* ValueError and makes no exchange: the frames sent, the last reply read and
\* the reply the bus holds ready are the same after the call as before it.
C4_InvalidChannelNoExchange ==
  [][ (ret'.op = "get_adc_by_channel" /\ ret'.n \notin {0, 1})
      => ( /\ ret'.tag = "ValueError"
           /\ Len(spi_log') = Len(spi_log)
           /\ UNCHANGED <<spi_log, spi_rx, spi_reply>> ) ]_vars

\* C4 witness: channel -1 has been refused after an earlier exchange.
C4_Witness ==
  /\ ret.op = "get_adc_by_channel" /\ ret.n = -1 /\ ret.tag = "ValueError"
  /\ Len(spi_log) = 1

\* the last call was a sample of a valid channel, answered after an exchange
AdcReturned ==
  /\ ret.op = "get_adc_by_channel" /\ ret.tag = "return"
  /\ Len(spi_log) > 0

C6_RawWithinResolution ==
  (AdcReturned /\ Len(spi_rx) = 2) => ret.val \in 0..(2^adc_resolution - 1)

\* C7: on a board built with stepper_motor_enable false, nothing has touched
\* channels 6..11 of chip 1 and no StepperMotor has been built, the stepper
\* cache holds a StepperSim, every get_stepper returns the cached StepperSim,
\* and no step after construction replaces the cached object.
C7_DisabledStepperTouchesNothing ==
  /\ [] ( (pc = "ready" /\ ~stepper_motor_enable) =>
            /\ \A ch \in 6..11 : Touches(PCA_1, ch) = {}
            /\ \A i \in DOMAIN i2c_log : i2c_log[i].op # "StepperMotor"
            /\ stepper1.kind = "StepperSim"
            /\ (ret.op = "get_stepper") => (ret.tag = "return" /\ ret.obj = stepper1) )
  /\ [][ (pc = "ready" /\ ~stepper_motor_enable) => stepper1' = stepper1 ]_vars

\* C7 witness: get_stepper has answered on a board without stepper hardware
\* whose chevron motors are real.
C7_Witness ==
  /\ pc = "ready" /\ ~stepper_motor_enable /\ chevron_motors_enable
  /\ ret.op = "get_stepper" /\ ret.obj.kind = "StepperSim"

FourModes == {"double", "single", "interleave", "microstep"}

\* C8: get_stepper_drive_mode never raises; for double, single, interleave and
\* microstep it returns the driver's DOUBLE, SINGLE, INTERLEAVE and MICROSTEP,
\* for any other name the driver's DOUBLE; and two calls in a row with two
\* different names among the four return different constants.
C8_DriveModes ==
  /\ [] ( ret.op = "get_stepper_drive_mode" =>
            /\ ret.tag = "return"
            /\ ret.val = CASE ret.name = "double"     -> stp.DOUBLE
                           [] ret.name = "single"     -> stp.SINGLE
                           [] ret.name = "interleave" -> stp.INTERLEAVE
                           [] ret.name = "microstep"  -> stp.MICROSTEP
                           [] OTHER                   -> stp.DOUBLE )
  /\ [][ ( /\ ret.op = "get_stepper_drive_mode" /\ ret'.op = "get_stepper_drive_mode"
           /\ ret.name \in FourModes /\ ret'.name \in FourModes
           /\ ret.name # ret'.name )
         => ret.val # ret'.val ]_vars

\* C8 witness: an unknown name has been answered with the constant of double.
C8_Witness ==
  ret.op = "get_stepper_drive_mode" /\ ret.name = "bogus" /\ ret.val = stp.DOUBLE

\* C9: on a board built with stepper_motor_enable true, channels 6 and 11 of
\* chip 1 have each been written exactly once, with full duty, exactly one
\* StepperMotor has been built and both writes come before it, the stepper
\* cache holds that object and every get_stepper returns it.
C9_StepperEnabledOnce ==
  (pc = "ready" /\ stepper_motor_enable) =>
    /\ Cardinality(WritesTo(PCA_1, 6)) = 1
    /\ Cardinality(WritesTo(PCA_1, 11)) = 1
    /\ \A i \in WritesTo(PCA_1, 6) \cup WritesTo(PCA_1, 11) : i2c_log[i].val = FULL_DUTY
    /\ Cardinality(BuiltOver("StepperMotor", PCA_1, <<8, 7, 9, 10>>)) = 1
    /\ \A j \in BuiltOver("StepperMotor", PCA_1, <<8, 7, 9, 10>>) :
         /\ \A i \in WritesTo(PCA_1, 6) \cup WritesTo(PCA_1, 11) : i < j
         /\ stepper1 = ObjOf(i2c_log[j])
         /\ (ret.op = "get_stepper") => (ret.tag = "return" /\ ret.obj = ObjOf(i2c_log[j]))

\* C9 witness: get_stepper has returned the real stepper.
C9_Witness ==
  /\ pc = "ready" /\ stepper_motor_enable
  /\ ret.op = "get_stepper" /\ ret.obj.kind = "StepperMotor"

\* C10: for every motor index the factory has written the enable channel at
\* most once and built at most one DCMotor, however often the motor<n>
\* property was read, and a read of the property returns that one object.
C10_FactoryIdempotent ==
  \A c \in 1..Len(MotorWiring) :
    LET chip == MotorWiring[c].controller IN
    /\ Cardinality(WritesTo(chip, EnableOf(c))) <= 1
    /\ Cardinality(BuiltOver("DCMotor", chip, PolarityOf(c))) <= 1
    /\ (ret.op = "motor_property" /\ ret.n = c) =>
         \A i \in BuiltOver("DCMotor", chip, PolarityOf(c)) : ret.obj = ObjOf(i2c_log[i])

\* C11 (as amended): motor handles are created at board construction, not on
\* first access.  Before construction there is no handle and no write; from
\* the end of construction on, with chevron motors enabled, every motor channel
\* has exactly one enable write and exactly one DCMotor, held by the motor
\* table, whether or not it was ever requested; and get_chevron_motor builds no
\* handle and writes no channel.
C11_MotorsBuiltAtConstruction ==
  /\ [] ( /\ (pc = "boot") =>
               (i2c_log = <<>> /\ motor_channels = <<>> /\ motor_attr = <<>>)
          /\ (pc = "ready" /\ chevron_motors_enable) =>
               \A c \in 1..Len(MotorWiring) :
                 LET chip == MotorWiring[c].controller IN
                 /\ Cardinality(WritesTo(chip, EnableOf(c))) = 1
                 /\ Cardinality(BuiltOver("DCMotor", chip, PolarityOf(c))) = 1
                 /\ \A j \in BuiltOver("DCMotor", chip, PolarityOf(c)) :
                      motor_channels[c] = ObjOf(i2c_log[j]) )
  /\ [][ (ret'.op = "get_chevron_motor")
         => UNCHANGED <<i2c_log, motor_channels, motor_attr, next_id>> ]_vars

\* C11 witness: construction with real chevron motors has just ended and no
\* request has been made.
C11_Witness ==
  pc = "ready" /\ chevron_motors_enable /\ ret.op = "__init__" /\ Len(i2c_log) > 0

\* C11 as stated: right after construction, before any get_chevron_motor
\* request, no motor handle exists and no motor enable channel has been written.
C11_Original ==
  (pc = "ready" /\ chevron_motors_enable /\ ret.op = "__init__") =>
    \A c \in 1..Len(MotorWiring) :
      /\ WritesTo(MotorWiring[c].controller, EnableOf(c)) = {}
      /\ BuiltOver("DCMotor", MotorWiring[c].controller, PolarityOf(c)) = {}

\* C12: for every raw sample in 0 .. 2^adc_resolution - 1 the voltage that
\* get_homing_sensor_voltage returns is Vref * raw / 2^adc_resolution (in the
\* scaled integers: adc_vref_tenths * raw), never negative and never above Vref.
C12_VoltageCalibrated ==
  ( /\ ret.op = "get_homing_sensor_voltage" /\ ret.tag = "return"
    /\ adc_value_of(spi_rx) \in 0..(2^adc_resolution - 1) )
  => /\ ret.val = adc_vref_tenths * adc_value_of(spi_rx)
     /\ ret.val >= 0
     /\ ret.val <= adc_vref_tenths * 2^adc_resolution

\* C13: a sample call whose exchange read fewer than two bytes does not
\* return a value.
C13_ShortReplySurfaced ==
  ~(AdcReturned /\ Len(spi_rx) < 2)

\* C17: a sample call for a valid channel c never raises and makes exactly one
\* exchange; the frame it sends is the two bytes <<192 + 32 * c, 0>>, the
\* first of which fits in 8 bits; the frames sent before are kept; and for a
\* two-byte reply (b0, b1) of that exchange the value returned is
\* floor((256 * b0 + b1) / 2), whatever the earlier calls were.
C17_OneExchangeFrameAndValue ==
  /\ [] ( (ret.op = "get_adc_by_channel" /\ ret.n \in {0, 1}) => ret.tag = "return" )
  /\ [][ (ret'.op = "get_adc_by_channel" /\ ret'.tag = "return")
         => ( /\ ret'.n \in {0, 1}
              /\ Len(spi_log') = Len(spi_log) + 1
              /\ SubSeq(spi_log', 1, Len(spi_log)) = spi_log
              /\ spi_log'[Len(spi_log')] = <<192 + 32 * ret'.n, 0>>
              /\ spi_log'[Len(spi_log')][1] \in 0..255
              /\ spi_rx' = spi_reply
              /\ (Len(spi_rx') = 2) =>
                   ret'.val = (256 * spi_rx'[1] + spi_rx'[2]) \div 2 ) ]_vars

\* C17 witness: channel 1 has been sampled in the second exchange of a run,
\* which read two bytes.
C17_Witness ==
  AdcReturned /\ ret.n = 1 /\ Len(spi_log) = 2 /\ Len(spi_rx) = 2

\* the value of a chevron's remap entry for the role names no registered channel
PointsNowhere(op, n) ==
  /\ Key(n, RoleOf(op)) \in DOMAIN board_cfg
  /\ board_cfg[Key(n, RoleOf(op))] \notin 1..7

\* the value of a chevron's remap entry for the role names registered channel c
PointsTo(op, n, c) ==
  /\ Key(n, RoleOf(op)) \in DOMAIN board_cfg
  /\ board_cfg[Key(n, RoleOf(op))] = c

\* C14: a lookup whose remap entry names a channel outside 1..7 raises
\* KeyError and leaves the log, the LED table, the motor table, the cached
\* motor attributes and the stepper cache as they were; the two tables never
\* change after construction; and every lookup of a chevron mapped to a
\* registered channel, before or after such a failure, returns the handle the
\* table holds for that channel.
C14_BadChannelFailsAlone ==
  /\ [][ ( /\ ret'.op \in {"get_chevron_led", "get_chevron_motor"}
           /\ PointsNowhere(ret'.op, ret'.n) )
         => ( /\ ret'.tag = "KeyError"
              /\ UNCHANGED <<i2c_log, led_channels, motor_channels, motor_attr,
                             stepper1, next_id>> ) ]_vars
  /\ [][ (pc = "ready")
         => (motor_channels' = motor_channels /\ led_channels' = led_channels) ]_vars
  /\ [] ( \A c \in 1..7 :
            /\ (ret.op = "get_chevron_motor" /\ PointsTo(ret.op, ret.n, c))
                 => (ret.tag = "return" /\ ret.obj = motor_channels[c])
            /\ (ret.op = "get_chevron_led" /\ PointsTo(ret.op, ret.n, c))
                 => (ret.tag = "return" /\ ret.obj = led_channels[c]) )

\* C14 witness: under the remap written from the chevrons table, the lookup
\* of chevron 8 (motor number 10) has failed.
C14_Witness ==
  /\ pc = "ready" /\ board_cfg = ChevronsRemap
  /\ ret.op = "get_chevron_motor" /\ ret.n = 8 /\ ret.tag = "KeyError"
  /\ board_cfg[Key(8, "motor")] = 10

\* C15: a call of the motor factory with a channel triplet in which some
\* index is outside 0..15 fails with an addressing error, writes no channel
\* and binds no handle.
C15_BadIndexWritesNothing ==
  [][ \A t \in FactoryTriplets :
        (motor_factory(PCA_2, 3, t) /\ \E k \in 1..3 : t[k] \notin ChannelRange)
          => ( /\ ret'.tag = "IndexError"
               /\ i2c_log' = i2c_log
               /\ motor_attr' = motor_attr ) ]_vars

\* the log holds, before position j, a full-duty write to channel ch of chip
EnabledBefore(j, chip, ch) ==
  \E i \in 1..(j - 1) : i2c_log[i] = DutyWrite(chip, ch, FULL_DUTY)

\* the handles a caller, the motor table, the cached attributes or the
\* stepper cache hold that are real motor objects
RealHandles ==
  { o \in {motor_channels[c] : c \in DOMAIN motor_channels}
            \cup {motor_attr[a] : a \in DOMAIN motor_attr}
            \cup {stepper1, ret.obj} :
      o.kind \in {"DCMotor", "StepperMotor"} }

\* C16: every DCMotor was built after the full-duty write to the enable
\* channel of its wiring, every StepperMotor after the full-duty writes to
\* both stepper enable channels, and every real handle held by a caller, the
\* motor table, the cached attributes or the stepper cache is one of the
\* objects so built.
C16_EnableBeforeHandle ==
  /\ \A j \in 1..Len(i2c_log) :
       /\ (i2c_log[j].op = "DCMotor") =>
            \E c \in 1..Len(MotorWiring) :
              /\ MotorWiring[c].controller = i2c_log[j].chip
              /\ PolarityOf(c) = i2c_log[j].chans
              /\ EnabledBefore(j, i2c_log[j].chip, EnableOf(c))
       /\ (i2c_log[j].op = "StepperMotor") =>
            /\ i2c_log[j].chip = StepperWiring.controller
            /\ \A k \in 1..Len(StepperWiring.enable) :
                 EnabledBefore(j, StepperWiring.controller, StepperWiring.enable[k])
  /\ \A o \in RealHandles :
       \E j \in 1..Len(i2c_log) : ObjOf(i2c_log[j]) = o

\* C16 witness: a caller holds a DCMotor read from a motor property while the
\* stepper cache holds a StepperMotor and the motor table holds DCMotors.
C16_Witness ==
  /\ ret.op = "motor_property" /\ ret.obj.kind = "DCMotor"
  /\ stepper1.kind = "StepperMotor"
  /\ pc = "ready" /\ motor_channels[7].kind = "DCMotor"

\* the logical roles of the wiring: motor1 .. motor7 and the stepper
StepperRole == <<"stepper", 0>>
WiringRoles == {<<"motor", n>> : n \in 1..Len(MotorWiring)} \cup {StepperRole}

\* the physical channels <<chip, index>> a role claims
Claimed(role) ==
  IF role = StepperRole
  THEN {<<StepperWiring.controller, StepperWiring.enable[k]>> :
           k \in DOMAIN StepperWiring.enable}
       \cup {<<StepperWiring.controller, StepperWiring.coils[k]>> :
           k \in DOMAIN StepperWiring.coils}
  ELSE {<<MotorWiring[role[2]].controller, MotorWiring[role[2]].channels[k]>> :
           k \in 1..3}

\* the physical channels the log has touched
Touched ==
  UNION {{<<i2c_log[i].chip, i2c_log[i].chans[k]>> : k \in DOMAIN i2c_log[i].chans} :
           i \in DOMAIN i2c_log}

\* C18: the channel triplets of motor1..motor7 and the six stepper channels
\* (chip 1: 6..11) are pairwise disjoint with every index in 0..15, and in
\* every state each physical channel the log touches is claimed by exactly
\* one role and was touched once; with both flags enabled the constructed
\* board has touched all 27 claimed channels.
C18_OneRolePerChannel ==
  /\ \A r1, r2 \in WiringRoles : (r1 # r2) => (Claimed(r1) \cap Claimed(r2) = {})
  /\ \A r \in WiringRoles : \A p \in Claimed(r) : p[2] \in ChannelRange
  /\ Claimed(StepperRole) = {PCA_1} \X (6..11)
  /\ \A i \in DOMAIN i2c_log : \A k \in DOMAIN i2c_log[i].chans :
       /\ Cardinality({r \in WiringRoles :
                         <<i2c_log[i].chip, i2c_log[i].chans[k]>> \in Claimed(r)}) = 1
       /\ Cardinality(Touches(i2c_log[i].chip, i2c_log[i].chans[k])) = 1
  /\ (pc = "ready" /\ chevron_motors_enable /\ stepper_motor_enable) =>
       (Touched = UNION {Claimed(r) : r \in WiringRoles} /\ Cardinality(Touched) = 27)

\* C18 witness: a board constructed with motors and stepper enabled, whose
\* log holds the writes and bindings of all eight roles.
C18_Witness ==
  /\ pc = "ready" /\ chevron_motors_enable /\ stepper_motor_enable
  /\ Len(i2c_log) = 17
  /\ Touches(PCA_1, 6) # {} /\ Touches(PCA_1, 5) # {}

\* C19: once the seven motors are constructed, for every index i in 1..7 the
\* cached attribute _motor<i> exists and holds the handle bound to motor i's
\* own chip and polarity channels.
C19_CacheKeyedByIndex ==
  (pc = "ready" /\ chevron_motors_enable) =>
    \A i \in 1..Len(MotorWiring) :
      /\ i \in DOMAIN motor_attr
      /\ motor_attr[i].kind = "DCMotor"
      /\ motor_attr[i].chip = MotorWiring[i].controller
      /\ motor_attr[i].chans = PolarityOf(i)

\* the physical channels of the seven motor triplets
MotorChannels == UNION {Claimed(<<"motor", c>>) : c \in 1..Len(MotorWiring)}

\* C20: on a board constructed with chevron_motors_enable = false the log
\* never touches a motor enable or polarity channel and no DCMotor is built;
\* the motor table holds seven simulated handles, distinct instances for
\* distinct channels, and never changes after construction; a
\* get_chevron_motor call whose remap value is c in 1..7 returns the table's
\* handle for c; and in either configuration get_chevron_motor fails exactly
\* when the remap value is not a registered channel.
C20_SimulatedMotorsFacade ==
  /\ [] ( (pc = "ready" /\ ~chevron_motors_enable) =>
            ( /\ Touched \cap MotorChannels = {}
              /\ \A i \in DOMAIN i2c_log : i2c_log[i].op # "DCMotor"
              /\ motor_attr = <<>>
              /\ DOMAIN motor_channels = 1..7
              /\ \A c \in 1..7 : motor_channels[c].kind = "DCMotorSim"
              /\ \A c, d \in 1..7 :
                   (c # d) => (motor_channels[c].id # motor_channels[d].id)
              /\ \A c \in 1..7 :
                   (ret.op = "get_chevron_motor" /\ ResolvesTo(ret.n, c))
                     => (ret.tag = "return" /\ ret.obj = motor_channels[c]) ) )
  /\ [] ( (ret.op = "get_chevron_motor") =>
            ((ret.tag = "return") <=> (\E c \in 1..7 : ResolvesTo(ret.n, c))) )
  /\ [][ (pc = "ready") => (motor_channels' = motor_channels) ]_vars

\* C20 witness: on a board with simulated motors and a real stepper, under
\* the reversed remap, chevron 2 has been looked up and the handle of
\* channel 6 returned.
C20_Witness ==
  /\ pc = "ready" /\ ~chevron_motors_enable /\ stepper_motor_enable
  /\ board_cfg = ReversedRemap
  /\ ret.op = "get_chevron_motor" /\ ret.n = 2 /\ ret.tag = "return"
  /\ ret.obj = motor_channels[6] /\ ret.obj.kind = "DCMotorSim"

====
